---- MODULE Spec2Model ----
(***************************************************************************)
(* Model of the Streaming Avatar FastAPI backend (src/main.py): the        *)
(* startup provisioning of the default knowledge base, the four request    *)
(* handlers, and the remote HeyGen service they call.  Every handler is    *)
(* split at its awaits: one action per remote call, the next action        *)
(* handles the response.                                                   *)
(***************************************************************************)
EXTENDS Integers, Sequences, FiniteSets, TLC

\* ---------------------------------------------------------------- bounds
MaxOps == 2                      \* client requests served in one behaviour
Clients == {"c1", "c2"}          \* concurrently running request handlers
Procs == {"startup"} \cup Clients

\* ------------------------------------------------------- Python values
None == "<None>"                 \* Python None (a missing dict key via .get)
Truthy(v) == v # None /\ v # ""  \* truthiness of an optional string
PyOr(a, b) == IF Truthy(a) THEN a ELSE b     \* Python's `a or b`

\* ---------------------------------------------------------- descriptors
Desc(n, o, p) == [name |-> n, opening |-> o, prompt |-> p]
DefaultName == "Office Query Solver"
DefaultOpening == "starts with a greeting"
DefaultPrompt == "You are an IT industry office query solver. Help users with workplace-related queries in the IT industry, such as software development, project management, team collaboration, and technical challenges."
DefaultDesc == Desc(DefaultName, DefaultOpening, DefaultPrompt)
\* request bodies a client may post (KnowledgeBaseRequest)
ReqDescs == {DefaultDesc, Desc(DefaultName, DefaultOpening, "custom prompt")}
NoDesc == Desc(None, None, None)

\* an entry of the remote list: {id, name, opening, prompt}
Entry(i, d) == [id |-> i, name |-> d.name, opening |-> d.opening, prompt |-> d.prompt]
DescOf(kb) == Desc(kb.name, kb.opening, kb.prompt)

\* ------------------------------------------------------------ responses
\* kind: "ok" (2xx with a readable body), "status" (raise_for_status raises
\* HTTPStatusError), "error" (any other exception: the transport fails, or
\* the body of a 2xx answer cannot be read as expected)
RemoteStatuses == {401, 503}
NoResp == [kind |-> "none", status |-> 0, kbid |-> None, id |-> None, token |-> None]
OkCreate(k, i) == [kind |-> "ok", status |-> 200, kbid |-> k, id |-> i, token |-> None]
OkToken(t) == [kind |-> "ok", status |-> 200, kbid |-> None, id |-> None, token |-> t]
Failure(kind, s) == [kind |-> kind, status |-> s, kbid |-> None, id |-> None, token |-> None]
Failures == {Failure("status", s) : s \in RemoteStatuses}
              \cup {Failure("error", 0)}
NoList == [kind |-> "none", status |-> 0, list |-> <<>>]
OkList(l) == [kind |-> "ok", status |-> 200, list |-> l]
ListFailure(kind, s) == [kind |-> kind, status |-> s, list |-> <<>>]
ListFailures == {ListFailure("status", s) : s \in RemoteStatuses}
              \cup {ListFailure("error", 0)}

\* what a handler hands to the client
NoResult == [status |-> 0, body |-> None]
Ok(b) == [status |-> 200, body |-> b]
HTTPException(s, detail) == [status |-> s, body |-> detail]

VARIABLES
    HEYGEN_API_KEY,   \* the server credential: None, "" or a key
    default_kb_id,    \* the global default KB id
    pc,               \* per process: where its handler is suspended
    op,               \* per process: the operation it runs
    req,              \* per client: the posted KnowledgeBaseRequest
    resp,             \* per process: response of the token / create call
    list_resp,        \* per process: response of the list call
    result,           \* per client: the HTTP response handed back
    trace,            \* per process: remote calls of the current operation
    kbs,              \* remote: the knowledge bases it holds, in list order
    created,          \* remote: number of knowledge bases it has created
    remote,           \* remote: how its create call behaves (see CreateOutcomes)
    ops,              \* number of client requests started
    lastOk,           \* descriptor and id of the last successful create-resource
    prev              \* per client: that id when it started, if of its descriptor

vars == <<HEYGEN_API_KEY, default_kb_id, pc, op, req, resp, list_resp, result,
          trace, kbs, created, remote, ops, lastOk, prev>>

\* ------------------------------------------------------ pure functions
\* variant: `HEYGEN_API_KEY is None`, an empty key counts as configured
CredentialMissing_OnlyNone == HEYGEN_API_KEY = None

\* `not HEYGEN_API_KEY`
CredentialMissing == ~Truthy(HEYGEN_API_KEY)

\* variant: the two fields read in the other order
ExtractId_IdFirst(r) == PyOr(r.id, r.kbid)

\* data.get("data", {}).get("knowledge_base_id") or data.get("data", {}).get("id")
ExtractId(r) == PyOr(r.kbid, r.id)

\* variant: the opening is not compared
Matches_IgnoringOpening(kb, d) == kb.name = d.name /\ kb.prompt = d.prompt

\* the three-field comparison of the list scan
Matches(kb, d) == kb.name = d.name /\ kb.opening = d.opening /\ kb.prompt = d.prompt

\* variant: the loop without its break, the last match wins
RECURSIVE ScanList_NoBreak(_, _, _)
ScanList_NoBreak(list, d, kb_id) ==
    IF list = <<>> THEN kb_id
    ELSE ScanList_NoBreak(Tail(list), d,
                          IF Matches(Head(list), d) THEN Head(list).id ELSE kb_id)

\* for kb in kb_list: if <match>: kb_id = kb.get("id"); break
RECURSIVE ScanList(_, _, _)
ScanList(list, d, kb_id) ==
    IF list = <<>> THEN kb_id
    ELSE IF Matches(Head(list), d) THEN Head(list).id
    ELSE ScanList(Tail(list), d, kb_id)

\* variant: every failure is reported as 500
ErrorStatus_Always500(r) == IF r.kind = "ok" THEN r.status ELSE 500

\* except httpx.HTTPStatusError -> the remote status; except Exception -> 500
ErrorStatus(r) == IF r.kind = "status" THEN r.status ELSE 500

\* variant: the cached value is handed out unchecked
ConfigKnowledgeId_Raw(d) == d

\* config["knowledge_id"] = default_kb_id if default_kb_id else None
ConfigKnowledgeId(d) == IF Truthy(d) THEN d ELSE None

\* --------------------------------------------------------------- remote
IdName(n) == "kb_" \o ToString(n)
HeldIds(d) == {kbs[i].id : i \in {j \in DOMAIN kbs : DescOf(kbs[j]) = d}}

\* the bodies a successful create call may carry for the new resource x:
\* <<knowledge_base_id, id>>, either of them missing, empty or set
Shapes(x, other) == {<<None, None>>, <<"", "">>, <<"", x>>, <<x, other>>}

\* the possible answers of POST /v1/streaming/knowledge_base/create, each with
\* the remote state it leaves behind.  The remote is one of
\*   "idempotent": a descriptor it holds is not created again, and the answer
\*                 names the resource of that descriptor or nothing;
\*   "append":     every create adds a resource at the end of the list;
\*   "lossy":      a created resource does not show up in the list.
CreateOutcomes(d) ==
    LET fresh == IdName(created + 1)
        added == Append(kbs, Entry(fresh, d))
        failed == {[resp |-> f, kbs |-> kbs, created |-> created] : f \in Failures}
        held == HeldIds(d)
        x == IF held = {} THEN fresh ELSE CHOOSE i \in held : TRUE
    IN IF remote = "idempotent"
       THEN failed \cup
               {[resp |-> OkCreate(sh[1], sh[2]),
                 kbs |-> IF held = {} THEN added ELSE kbs,
                 created |-> IF held = {} THEN created + 1 ELSE created]
                   : sh \in Shapes(x, x)}
       ELSE failed \cup
               {[resp |-> OkCreate(sh[1], sh[2]),
                 kbs |-> IF remote = "append" THEN added ELSE kbs,
                 created |-> created + 1]
                   : sh \in Shapes(fresh, "kb_alt")}

\* the possible answers of GET /v1/streaming/knowledge_base/list
ListOutcomes == {OkList(kbs)} \cup ListFailures

\* the possible answers of POST /v1/streaming.create_token
TokenOutcomes == {OkToken("token_abc")} \cup Failures

\* ----------------------------------------------------------------- Init
InitLists(mode) ==
    IF mode = "idempotent"
    THEN {<<>>,
          <<Entry("kb_a", Desc(DefaultName, "other opening", DefaultPrompt)),
            Entry("kb_b", DefaultDesc)>>}
    ELSE {<<>>,
          <<Entry("", DefaultDesc)>>,
          <<Entry("kb_a", Desc("Other name", DefaultOpening, DefaultPrompt)),
            Entry("kb_b", DefaultDesc), Entry("kb_c", DefaultDesc)>>}

Init ==
    /\ HEYGEN_API_KEY \in {None, "", "key"}
    /\ default_kb_id = None
    /\ pc = [p \in Procs |-> IF p = "startup" THEN "start" ELSE "idle"]
    /\ op = [p \in Procs |-> IF p = "startup" THEN "startup" ELSE "none"]
    /\ req = [c \in Clients |-> NoDesc]
    /\ resp = [p \in Procs |-> NoResp]
    /\ list_resp = [p \in Procs |-> NoList]
    /\ result = [c \in Clients |-> NoResult]
    /\ trace = [p \in Procs |-> <<>>]
    /\ remote \in {"idempotent", "append", "lossy"}
    /\ kbs \in InitLists(remote)
    /\ created = 0
    /\ ops = 0
    /\ lastOk = [desc |-> NoDesc, id |-> None]
    /\ prev = [c \in Clients |-> None]

Call(name, r) == [call |-> name, kind |-> r.kind]

\* variant: a failed list call is sent once more
ListCall_Retry(p) ==
    /\ \E l \in ListOutcomes, l2 \in ListOutcomes :
          /\ list_resp' = [list_resp EXCEPT ![p] = IF l.kind = "ok" THEN l ELSE l2]
          /\ trace' = [trace EXCEPT ![p] =
                          IF l.kind = "ok" THEN Append(@, Call("list", l))
                          ELSE Append(Append(@, Call("list", l)), Call("list", l2))]
    /\ pc' = [pc EXCEPT ![p] = "await_list"]

\* await client.get(.../knowledge_base/list): lines 59-65 and 143-149
ListCall(p) ==
    /\ \E l \in ListOutcomes :
          /\ list_resp' = [list_resp EXCEPT ![p] = l]
          /\ trace' = [trace EXCEPT ![p] = Append(@, Call("list", l))]
    /\ pc' = [pc EXCEPT ![p] = "await_list"]

\* --------------------------------------------------- startup_event
\* lines 33-35: no key, return
StartupNoKey ==
    /\ pc["startup"] = "start"
    /\ CredentialMissing
    /\ pc' = [pc EXCEPT !["startup"] = "done"]
    /\ UNCHANGED <<HEYGEN_API_KEY, default_kb_id, op, req, resp, list_resp, result,
                   trace, kbs, created, remote, ops, lastOk, prev>>

\* lines 40-52: await client.post(.../knowledge_base/create, DefaultDesc)
StartupCreate ==
    /\ pc["startup"] = "start"
    /\ ~CredentialMissing
    /\ \E o \in CreateOutcomes(DefaultDesc) :
          /\ resp' = [resp EXCEPT !["startup"] = o.resp]
          /\ kbs' = o.kbs
          /\ created' = o.created
          /\ trace' = [trace EXCEPT !["startup"] = Append(@, Call("create", o.resp))]
    /\ pc' = [pc EXCEPT !["startup"] = "await_create"]
    /\ UNCHANGED <<HEYGEN_API_KEY, default_kb_id, op, req, list_resp, result,
                   remote, ops, lastOk, prev>>

\* variant: the except clause only logs
StartupExcept_NoReset ==
    /\ default_kb_id' = default_kb_id
    /\ pc' = [pc EXCEPT !["startup"] = "done"]

\* lines 82-84: except Exception: default_kb_id = None
StartupExcept ==
    /\ default_kb_id' = None
    /\ pc' = [pc EXCEPT !["startup"] = "done"]

\* lines 53-65 and 77-84: read the create response; list when it has no id
StartupCreateResp ==
    /\ pc["startup"] = "await_create"
    /\ IF resp["startup"].kind # "ok"
       THEN /\ StartupExcept
            /\ UNCHANGED <<list_resp, trace>>
       ELSE LET id == ExtractId(resp["startup"]) IN
            /\ default_kb_id' = id
            /\ IF Truthy(id)
               THEN /\ pc' = [pc EXCEPT !["startup"] = "done"]
                    /\ UNCHANGED <<list_resp, trace>>
               ELSE ListCall("startup")
    /\ UNCHANGED <<HEYGEN_API_KEY, op, req, resp, result, kbs, created, remote,
                   ops, lastOk, prev>>

\* lines 66-84: read the list response and scan it
StartupListResp ==
    /\ pc["startup"] = "await_list"
    /\ IF list_resp["startup"].kind # "ok"
       THEN StartupExcept
       ELSE /\ default_kb_id' = ScanList(list_resp["startup"].list, DefaultDesc, default_kb_id)
            /\ pc' = [pc EXCEPT !["startup"] = "done"]
    /\ UNCHANGED <<HEYGEN_API_KEY, op, req, resp, list_resp, result, trace, kbs,
                   created, remote, ops, lastOk, prev>>

\* the startup hook returns (its locals are dropped) and the application
\* starts serving
StartupReturn ==
    /\ pc["startup"] = "done"
    /\ pc' = [pc EXCEPT !["startup"] = "serving"]
    /\ resp' = [resp EXCEPT !["startup"] = NoResp]
    /\ list_resp' = [list_resp EXCEPT !["startup"] = NoList]
    /\ trace' = [trace EXCEPT !["startup"] = <<>>]
    /\ UNCHANGED <<HEYGEN_API_KEY, default_kb_id, op, req, result, kbs, created,
                   remote, ops, lastOk, prev>>

\* ------------------------------------------------------ request dispatch
\* the application serves requests once the startup hook has returned
\* and runs a request on c1, or on c2 when c1 is suspended in a remote call
CanStart(c) ==
    /\ pc["startup"] = "serving"
    /\ pc[c] = "idle"
    /\ c = "c2" => pc["c1"] \in {"await_token", "await_create", "await_list"}
    /\ ops < MaxOps

Begin(c, o, d) ==
    /\ op' = [op EXCEPT ![c] = o]
    /\ req' = [req EXCEPT ![c] = d]
    /\ prev' = [prev EXCEPT ![c] = IF d = lastOk.desc THEN lastOk.id ELSE None]
    /\ ops' = ops + 1

\* the handler of c returns r (or raises the HTTPException r)
Respond(c, r) ==
    /\ result' = [result EXCEPT ![c] = r]
    /\ pc' = [pc EXCEPT ![c] = "done"]

\* ------------------------------------------------- get_access_token
\* lines 95-96
GetAccessTokenNoKey(c) ==
    /\ CanStart(c)
    /\ CredentialMissing
    /\ Begin(c, "token", NoDesc)
    /\ Respond(c, HTTPException(500, "API key is missing from environment"))
    /\ UNCHANGED <<HEYGEN_API_KEY, default_kb_id, resp, list_resp, trace, kbs,
                   created, remote, lastOk>>

\* lines 98-103: await client.post(.../v1/streaming.create_token)
GetAccessToken(c) ==
    /\ CanStart(c)
    /\ ~CredentialMissing
    /\ Begin(c, "token", NoDesc)
    /\ \E r \in TokenOutcomes :
          /\ resp' = [resp EXCEPT ![c] = r]
          /\ trace' = [trace EXCEPT ![c] = Append(@, Call("token", r))]
    /\ pc' = [pc EXCEPT ![c] = "await_token"]
    /\ UNCHANGED <<HEYGEN_API_KEY, default_kb_id, list_resp, result, kbs, created,
                   remote, lastOk>>

\* lines 104-114
GetAccessTokenResp(c) ==
    /\ pc[c] = "await_token"
    /\ IF resp[c].kind = "ok"
       THEN Respond(c, Ok(resp[c].token))
       ELSE Respond(c, HTTPException(ErrorStatus(resp[c]),
                       IF resp[c].kind = "status"
                       THEN "Failed to retrieve access token" ELSE "str(e)"))
    /\ UNCHANGED <<HEYGEN_API_KEY, default_kb_id, op, req, resp, list_resp, trace,
                   kbs, created, remote, ops, lastOk, prev>>

\* ---------------------------------------------- create_knowledge_base
\* lines 118-119
CreateKnowledgeBaseNoKey(c, d) ==
    /\ CanStart(c)
    /\ CredentialMissing
    /\ Begin(c, "create", d)
    /\ Respond(c, HTTPException(500, "API key is missing from environment"))
    /\ UNCHANGED <<HEYGEN_API_KEY, default_kb_id, resp, list_resp, trace, kbs,
                   created, remote, lastOk>>

\* variant: a create call waits while another request creates the same
\* descriptor
CreateKnowledgeBase_Locked(c, d) ==
    /\ CanStart(c)
    /\ ~CredentialMissing
    /\ \A o \in Clients \ {c} : ~(pc[o] = "await_create" /\ req[o] = d)
    /\ Begin(c, "create", d)
    /\ \E o \in CreateOutcomes(d) :
          /\ resp' = [resp EXCEPT ![c] = o.resp]
          /\ kbs' = o.kbs
          /\ created' = o.created
          /\ trace' = [trace EXCEPT ![c] = Append(@, Call("create", o.resp))]
    /\ pc' = [pc EXCEPT ![c] = "await_create"]
    /\ UNCHANGED <<HEYGEN_API_KEY, default_kb_id, list_resp, result, remote, lastOk>>

\* lines 121-136: await client.post(.../knowledge_base/create, request)
CreateKnowledgeBase(c, d) ==
    /\ CanStart(c)
    /\ ~CredentialMissing
    /\ Begin(c, "create", d)
    /\ \E o \in CreateOutcomes(d) :
          /\ resp' = [resp EXCEPT ![c] = o.resp]
          /\ kbs' = o.kbs
          /\ created' = o.created
          /\ trace' = [trace EXCEPT ![c] = Append(@, Call("create", o.resp))]
    /\ pc' = [pc EXCEPT ![c] = "await_create"]
    /\ UNCHANGED <<HEYGEN_API_KEY, default_kb_id, list_resp, result, remote, lastOk>>

\* lines 166-169: the two except clauses
CreateRaise(c, r) ==
    /\ Respond(c, HTTPException(ErrorStatus(r),
                    IF r.kind = "status"
                    THEN "Failed to create or retrieve knowledge base" ELSE "str(e)"))
    /\ UNCHANGED <<default_kb_id, lastOk>>

\* variant: the handler also stores the identifier in the global
CreateReturn_SetsDefault(c, kb_id) ==
    /\ IF ~Truthy(kb_id)
       THEN /\ Respond(c, HTTPException(500, "str(e)"))
            /\ UNCHANGED lastOk
       ELSE /\ Respond(c, Ok(kb_id))
            /\ lastOk' = [desc |-> req[c], id |-> kb_id]
    /\ default_kb_id' = kb_id

\* lines 162-165 (the HTTPException of line 163 is re-raised by line 169)
CreateReturn(c, kb_id) ==
    /\ IF ~Truthy(kb_id)
       THEN /\ Respond(c, HTTPException(500, "str(e)"))
            /\ UNCHANGED lastOk
       ELSE /\ Respond(c, Ok(kb_id))
            /\ lastOk' = [desc |-> req[c], id |-> kb_id]
    /\ UNCHANGED default_kb_id

\* lines 137-149 and 162-169: read the create response; list when it has no id
CreateKnowledgeBaseResp(c) ==
    /\ pc[c] = "await_create"
    /\ op[c] = "create"
    /\ IF resp[c].kind # "ok"
       THEN /\ CreateRaise(c, resp[c])
            /\ UNCHANGED <<list_resp, trace>>
       ELSE LET kb_id == ExtractId(resp[c]) IN
            IF Truthy(kb_id)
            THEN /\ CreateReturn(c, kb_id)
                 /\ UNCHANGED <<list_resp, trace>>
            ELSE /\ ListCall(c)
                 /\ UNCHANGED <<default_kb_id, result, lastOk>>
    /\ UNCHANGED <<HEYGEN_API_KEY, op, req, resp, kbs, created, remote, ops, prev>>

\* lines 150-169: read the list response, scan it, return or raise
CreateKnowledgeBaseListResp(c) ==
    /\ pc[c] = "await_list"
    /\ op[c] = "create"
    /\ IF list_resp[c].kind # "ok"
       THEN CreateRaise(c, list_resp[c])
       ELSE CreateReturn(c, ScanList(list_resp[c].list, req[c], ExtractId(resp[c])))
    /\ UNCHANGED <<HEYGEN_API_KEY, op, req, resp, list_resp, trace, kbs, created,
                   remote, ops, prev>>

\* ------------------------------------------------- get_default_config
\* lines 173-199
GetDefaultConfig(c) ==
    /\ CanStart(c)
    /\ Begin(c, "config", NoDesc)
    /\ Respond(c, Ok(ConfigKnowledgeId(default_kb_id)))
    /\ UNCHANGED <<HEYGEN_API_KEY, default_kb_id, resp, list_resp, trace, kbs,
                   created, remote, lastOk>>

\* ---------------------------------------------------------------- root
\* lines 203-205
Root(c) ==
    /\ CanStart(c)
    /\ Begin(c, "root", NoDesc)
    /\ Respond(c, Ok("Streaming Avatar FastAPI Backend"))
    /\ UNCHANGED <<HEYGEN_API_KEY, default_kb_id, resp, list_resp, trace, kbs,
                   created, remote, lastOk>>

\* the response has been delivered; the worker is free for the next request
Return(c) ==
    /\ pc[c] = "done"
    /\ pc' = [pc EXCEPT ![c] = "idle"]
    /\ op' = [op EXCEPT ![c] = "none"]
    /\ req' = [req EXCEPT ![c] = NoDesc]
    /\ resp' = [resp EXCEPT ![c] = NoResp]
    /\ list_resp' = [list_resp EXCEPT ![c] = NoList]
    /\ result' = [result EXCEPT ![c] = NoResult]
    /\ trace' = [trace EXCEPT ![c] = <<>>]
    /\ prev' = [prev EXCEPT ![c] = None]
    /\ UNCHANGED <<HEYGEN_API_KEY, default_kb_id, kbs, created, remote,
                   ops, lastOk>>

Next ==
    \/ StartupNoKey
    \/ StartupCreate
    \/ StartupCreateResp
    \/ StartupListResp
    \/ StartupReturn
    \/ \E c \in Clients : GetAccessTokenNoKey(c)
    \/ \E c \in Clients : GetAccessToken(c)
    \/ \E c \in Clients : GetAccessTokenResp(c)
    \/ \E c \in Clients, d \in ReqDescs : CreateKnowledgeBaseNoKey(c, d)
    \/ \E c \in Clients, d \in ReqDescs : CreateKnowledgeBase(c, d)
    \/ \E c \in Clients : CreateKnowledgeBaseResp(c)
    \/ \E c \in Clients : CreateKnowledgeBaseListResp(c)
    \/ \E c \in Clients : GetDefaultConfig(c)
    \/ \E c \in Clients : Root(c)
    \/ \E c \in Clients : Return(c)

Spec == Init /\ [][Next]_vars

\* ------------------------------------------------------------ properties
Finished(c, o) == pc[c] = "done" /\ op[c] = o

\* a create-resource call that succeeded right after a successful one with the
\* same descriptor
SecondOfTwo(c) ==
    Finished(c, "create") /\ result[c].status = 200 /\ prev[c] # None

\* C1 as stated: of two successive successful create-resource calls with the
\* same descriptor the second returns the knowledge_base_id of the first.
C1_SecondCallSameId ==
    \A c \in Clients : SecondOfTwo(c) => result[c].body = prev[c]

\* C1 amended: with a remote whose create call is idempotent (a descriptor it
\* holds is not created again and the answer names that resource or nothing),
\* the second of two successive successful create-resource calls with the same
\* descriptor returns the knowledge_base_id of the first.
C1_SecondCallSameIdIdempotentRemote ==
    remote = "idempotent" => \A c \in Clients : SecondOfTwo(c) => result[c].body = prev[c]

C1_Witness ==
    /\ remote = "idempotent"
    /\ \E c \in Clients : SecondOfTwo(c) /\ Len(trace[c]) = 2 /\ result[c].body = prev[c]

\* the create call of c succeeded without an identifier and the list was read
FellBack(c) ==
    /\ Finished(c, "create")
    /\ resp[c].kind = "ok" /\ ~Truthy(resp[c].kbid) /\ ~Truthy(resp[c].id)
    /\ list_resp[c].kind = "ok"

MatchingIndices(c) ==
    {i \in DOMAIN list_resp[c].list : DescOf(list_resp[c].list[i]) = req[c]}

FirstMatching(c) ==
    list_resp[c].list[CHOOSE i \in MatchingIndices(c) : \A j \in MatchingIndices(c) : i <= j]

\* C2 as stated: after a create response without identifier, create-resource
\* returns the id of the first listed entry equal in name, opening and prompt,
\* and fails with status 500 when no listed entry matches.
C2_FallbackReturnsFirstMatch ==
    \A c \in Clients : FellBack(c) =>
        IF MatchingIndices(c) # {}
        THEN result[c] = Ok(FirstMatching(c).id)
        ELSE result[c].status = 500

\* C2 amended: after a create response without identifier, create-resource
\* returns the id of the first listed entry equal in name, opening and prompt
\* when that id is non-empty; it fails with status 500 when no listed entry
\* matches or when the first matching entry has no non-empty id.
C2_FallbackReturnsFirstMatchWithId ==
    \A c \in Clients : FellBack(c) =>
        IF MatchingIndices(c) # {} /\ Truthy(FirstMatching(c).id)
        THEN result[c] = Ok(FirstMatching(c).id)
        ELSE result[c].status = 500

C2_Witness ==
    \E c \in Clients :
        /\ FellBack(c)
        /\ Cardinality(MatchingIndices(c)) >= 2
        /\ result[c] = Ok(FirstMatching(c).id)

\* C3: without the credential, issue-access-token and create-resource fail
\* with the configuration error (status 500), and neither they nor startup
\* provisioning send any request to the remote service.
C3_NoCredentialNoRemoteCall ==
    ~Truthy(HEYGEN_API_KEY) =>
        /\ \A p \in Procs : trace[p] = <<>> /\ resp[p] = NoResp /\ list_resp[p] = NoList
        /\ \A p \in Procs : pc[p] \notin {"await_token", "await_create", "await_list"}
        /\ created = 0
        /\ \A c \in Clients : Finished(c, "token") \/ Finished(c, "create") =>
              result[c] = HTTPException(500, "API key is missing from environment")

C3_Witness ==
    /\ HEYGEN_API_KEY = ""
    /\ ops = 2
    /\ \E c \in Clients : Finished(c, "create") /\ result[c].status = 500

\* C4: get-default-config answers with status 200 without any remote call, and
\* its knowledge_id is the non-empty cached identifier or null, never "".
C4_DefaultConfigNeverEmpty ==
    \A c \in Clients : Finished(c, "config") =>
        /\ result[c].status = 200
        /\ trace[c] = <<>>
        /\ result[c].body # ""
        /\ result[c].body = None \/ result[c].body = default_kb_id

C4_Witness ==
    \E c \in Clients : Finished(c, "config") /\ default_kb_id = "" /\ result[c].body = None

\* C5: a non-empty cached identifier never changes, and once startup has
\* finished no request changes the cached identifier at all.
C5_DefaultIdWrittenOnlyByStartup ==
    [][/\ Truthy(default_kb_id) => default_kb_id' = default_kb_id
       /\ pc["startup"] \in {"done", "serving"} => default_kb_id' = default_kb_id]_vars

C5_Witness ==
    /\ pc["startup"] = "serving"
    /\ Truthy(default_kb_id)
    /\ \E c \in Clients :
          Finished(c, "create") /\ result[c].status = 200 /\ result[c].body # default_kb_id

\* C6: a non-success status S of the token, create or list call becomes the
\* status of the client's response; every other failure gives status 500.
C6_RemoteStatusPropagates ==
    \A c \in Clients :
        /\ Finished(c, "token") =>
              /\ resp[c].kind = "status" => result[c].status = resp[c].status
              /\ resp[c].kind = "error" => result[c].status = 500
        /\ Finished(c, "create") =>
              /\ resp[c].kind = "status" => result[c].status = resp[c].status
              /\ resp[c].kind = "error" => result[c].status = 500
              /\ list_resp[c].kind = "status" => result[c].status = list_resp[c].status
              /\ list_resp[c].kind = "error" => result[c].status = 500
              /\ resp[c].kind = "ok" /\ list_resp[c].kind \in {"none", "ok"} =>
                    result[c].status \in {200, 500}

C6_Witness ==
    \E c \in Clients :
        /\ Finished(c, "create")
        /\ resp[c].kind = "ok"
        /\ list_resp[c].kind = "status"
        /\ result[c].status = 503

\* startup provisioning hit a failing remote call or an unreadable response
StartupFailed ==
    /\ pc["startup"] = "done"
    /\ resp["startup"].kind \in {"status", "error"} \/ list_resp["startup"].kind \in {"status", "error"}

\* C7: when a remote call of startup provisioning fails, startup still
\* finishes with the cached identifier absent (None), and the application
\* goes on to serve.
C7_StartupFailureSwallowed ==
    StartupFailed => default_kb_id = None /\ ENABLED StartupReturn

C7_Witness ==
    /\ StartupFailed
    /\ resp["startup"].kind = "ok" /\ resp["startup"].id = ""
    /\ list_resp["startup"].kind = "status"
    /\ default_kb_id = None

\* C8: while one create-resource request is suspended in its remote create
\* call, a second request with the same descriptor is free to send its own
\* create call; nothing in the proxy holds it back.
C8_ConcurrentCreateNotPrevented ==
    pc["c1"] = "await_create" /\ pc["c2"] = "idle" /\ ops < MaxOps =>
        ENABLED CreateKnowledgeBase("c2", req["c1"])

\* the remote holds two resources of the descriptor both requests posted
C8_Witness ==
    /\ pc["c1"] = "await_create" /\ pc["c2"] = "await_create"
    /\ req["c1"] = req["c2"]
    /\ resp["c1"].kind = "ok" /\ resp["c2"].kind = "ok"
    /\ Len(kbs) >= 2
    /\ DescOf(kbs[Len(kbs)]) = req["c1"] /\ DescOf(kbs[Len(kbs) - 1]) = req["c1"]
    /\ kbs[Len(kbs)].id # kbs[Len(kbs) - 1].id

\* C9: an operation sends at most one token call, or at most one create call
\* followed by at most one list call, the list call only after a successful
\* create call; nothing is sent after a failed call.
C9_NoRemoteCallRepeated ==
    \A p \in Procs :
        LET t == trace[p] IN
        /\ Len(t) <= 2
        /\ op[p] \in {"none", "config", "root"} => t = <<>>
        /\ op[p] = "token" => Len(t) <= 1 /\ \A i \in DOMAIN t : t[i].call = "token"
        /\ op[p] \in {"startup", "create"} =>
              /\ Len(t) >= 1 => t[1].call = "create"
              /\ Len(t) = 2 => t[2].call = "list" /\ t[1].kind = "ok"

C9_Witness ==
    \E c \in Clients :
        /\ Finished(c, "create")
        /\ Len(trace[c]) = 2
        /\ trace[c][2].kind = "status"

\* the identifier an operation ended with
Outcome(p) == IF p = "startup" THEN default_kb_id ELSE result[p].body

\* C10: after a successful create call, startup provisioning and
\* create-resource take a non-empty knowledge_base_id, else a non-empty id,
\* from the response, make no list call, and end with that identifier.
C10_KnowledgeBaseIdBeforeId ==
    \A p \in Procs :
        pc[p] = "done" /\ op[p] \in {"startup", "create"} /\ resp[p].kind = "ok" =>
            /\ Truthy(resp[p].kbid) =>
                  Outcome(p) = resp[p].kbid /\ Len(trace[p]) = 1
            /\ ~Truthy(resp[p].kbid) /\ Truthy(resp[p].id) =>
                  Outcome(p) = resp[p].id /\ Len(trace[p]) = 1
            /\ p \in Clients /\ (Truthy(resp[p].kbid) \/ Truthy(resp[p].id)) =>
                  result[p].status = 200

C10_Witness ==
    \E c \in Clients :
        /\ Finished(c, "create")
        /\ Truthy(resp[c].kbid) /\ Truthy(resp[c].id) /\ resp[c].kbid # resp[c].id
        /\ result[c] = Ok(resp[c].kbid)
====
